---- MODULE Spec2Model ----
(***************************************************************************)
(* Subscription store (database.py with its cloud and SQLite-fallback      *)
(* paths, and database_sqlite.py), the admin surfaces built on it          *)
(* (main.py, hybrid_admin.py), the health server (health_check.py) and the *)
(* API client bot (telegram_client.py).                                    *)
(*                                                                         *)
(* Time is counted in ticks, TicksPerDay ticks to a day; datetime.now()    *)
(* is the variable now.  A nullable column is <<>> (NULL) or <<v>>.        *)
(* The users table is a function whose DOMAIN is the set of ids that have  *)
(* a row.                                                                  *)
(***************************************************************************)
EXTENDS Integers, Sequences, FiniteSets, TLC

\* ------------------------------------------------------------------ bounds
MaxTime == 3
MaxPayments == 2
MaxLogs == 1
MaxCalls == 2
TicksPerDay == 2

\* ------------------------------------------------------- program constants
subscription_days == 21
subscription_price == 399

UserIds == {1001}
Names == {<<"alice">>}
Statuses == {"inactive", "active", "expired"}
Variants == {"cloud", "fallback", "legacy"}
Days == {0, 1, subscription_days}
Refs == {<<>>, <<"REF1">>}
\* amount and payment_ref as the store's callers pass them
Payments == {[amount |-> subscription_price, ref |-> <<"REF1">>],
             [amount |-> 100, ref |-> <<>>]}
Callers == {"secondary_admin", "outsider"}
admin_user_ids == {"primary_admin", "secondary_admin"}
FailPoints == {"none", "stmt1", "stmt2"}

NULL == <<>>
Some(v) == <<v>>
Val(o) == o[1]

\* The callers that can be inside the store at the same time: the threads of
\* one process and the processes that share the database file.
Procs == 1..MaxCalls

\* A caller that is not inside the store.
Idle == [op |-> "idle", pc |-> "done", user |-> 0, seen |-> NULL, ret |-> FALSE]

VARIABLES
    variant,        \* which store the process was built with
    now,            \* datetime.now(), in ticks
    users,          \* users table: id -> row
    payments,       \* payments / payment_logs table, in insertion order
    usage_logs,     \* usage_logs table, in insertion order
    last,           \* the last operation or admin action and what it returned
    activated,      \* ids for which a grant or an activation was ever requested
    expiredSince,   \* ids expired with no grant or activation requested since
    inflight,       \* the store calls that have started and not yet returned
    is_healthy,     \* OSINTAdminBot.is_healthy
    conflict        \* the error handler has seen a Conflict error

vars == <<variant, now, users, payments, usage_logs, last, activated, expiredSince,
          inflight, is_healthy, conflict>>

\* What no admin action and no sequential store call touches.
process == <<inflight, is_healthy, conflict>>

\* ------------------------------------------------------------------- rows
\* A fresh users row: the column defaults of CREATE TABLE users.
NewRow(name) ==
    [username |-> name, status |-> "inactive", start |-> NULL, end |-> NULL,
     created |-> now, payment_amount |-> NULL, payment_reference |-> NULL,
     queries_used |-> 0]

DB(u, p) == [users |-> u, payments |-> p]

Put(tbl, id, row) == [x \in (DOMAIN tbl) \cup {id} |-> IF x = id THEN row ELSE tbl[x]]

\* timedelta(days=d)
timedelta(d) == d * TicksPerDay

\* (a - b).days : the floor of the difference in whole days
DaysOf(delta) == delta \div TicksPerDay

Max(a, b) == IF a >= b THEN a ELSE b

\* get_user: the row of id, NULL when there is none
get_user(db, id) == IF id \in DOMAIN db.users THEN Some(db.users[id]) ELSE NULL

\* ------------------------------------------------- exceptions
\* A call either returns a value or raises.
Raise == [ret |-> NULL, raised |-> TRUE]
Return(v) == [ret |-> v, raised |-> FALSE]

\* One statement sent to the backend: it raises when the backend fails.
execute(fail, v) == IF fail # "none" THEN Raise ELSE Return(v)

\* An except clause that lets the exception through.
except_Reraise(r, v) == r

\* try: ... except Exception as e: logger.error(...); return v
except_Exception(r, v) == IF r.raised THEN Return(v) ELSE r

\* get_user with its try/except: None on a backend failure
try_get_user(db, id, fail) ==
    except_Exception(execute(fail, get_user(db, id)), NULL)

\* The store as a caller sees it through what get_user returned.
Seen(db, found, id) ==
    IF found = NULL
    THEN DB([x \in (DOMAIN db.users) \ {id} |-> db.users[x]], db.payments)
    ELSE db

\* ------------------------------------------------- store: add_user
\* database.py, cloud path: upsert of the profile columns only; a new row
\* takes the column defaults, an existing row keeps every other column.
add_user_supabase(db, id, name) ==
    IF id \in DOMAIN db.users
    THEN DB([db.users EXCEPT ![id].username = name], db.payments)
    ELSE DB(Put(db.users, id, NewRow(name)), db.payments)

\* database.py, SQLite path: INSERT OR REPLACE deletes the row with that key
\* and inserts a new one, so every column not listed is back at its default.
add_user_sqlite(db, id, name) ==
    DB(Put(db.users, id, NewRow(name)), db.payments)

\* database_sqlite.py: an existing row is left alone, else INSERT.
sqlite_add_user(db, id, name) ==
    IF id \in DOMAIN db.users
    THEN db
    ELSE DB(Put(db.users, id, NewRow(name)), db.payments)

add_user(db, id, name, fail) ==
    IF fail # "none"
    THEN [db |-> db, ret |-> FALSE]
    ELSE [db |-> CASE variant = "cloud" -> add_user_supabase(db, id, name)
                   [] variant = "fallback" -> add_user_sqlite(db, id, name)
                   [] OTHER -> sqlite_add_user(db, id, name),
          ret |-> TRUE]

\* ------------------------------------------------- store: update_subscription
\* An UPDATE that resets both dates whenever the status is not active.
SetStatus_ClearDates(tbl, id, status, days) ==
    IF id \notin DOMAIN tbl
    THEN tbl
    ELSE IF status = "active"
         THEN [tbl EXCEPT ![id].status = status,
                          ![id].start = Some(now),
                          ![id].end = Some(now + timedelta(days))]
         ELSE [tbl EXCEPT ![id].status = status, ![id].start = NULL, ![id].end = NULL]

\* database.py only (database_sqlite.py has no such method).  An UPDATE whose
\* WHERE matches no row changes nothing and raises nothing.
SetStatus(tbl, id, status, days) ==
    IF id \notin DOMAIN tbl
    THEN tbl
    ELSE IF status = "active"
         THEN [tbl EXCEPT ![id].status = status,
                          ![id].start = Some(now),
                          ![id].end = Some(now + timedelta(days))]
         ELSE [tbl EXCEPT ![id].status = status]

update_subscription(db, id, status, days, fail) ==
    IF fail # "none"
    THEN [db |-> db, ret |-> FALSE]
    ELSE [db |-> DB(SetStatus(db.users, id, status, days), db.payments), ret |-> TRUE]

\* ------------------------------------------------- store: grant_subscription
\* The UPDATE of grant_subscription: status active, start = now,
\* end = now + days; database_sqlite.py also stores amount and reference.
GrantUpdate(tbl, id, days, amount, ref) ==
    IF id \notin DOMAIN tbl
    THEN tbl
    ELSE IF variant = "legacy"
         THEN [tbl EXCEPT ![id].status = "active",
                          ![id].start = Some(now),
                          ![id].end = Some(now + timedelta(days)),
                          ![id].payment_amount = Some(amount),
                          ![id].payment_reference = ref]
         ELSE [tbl EXCEPT ![id].status = "active",
                          ![id].start = Some(now),
                          ![id].end = Some(now + timedelta(days))]

\* payment_ref or f"admin_grant_{user_id}_{int(timestamp)}" in database.py;
\* database_sqlite.py stores the reference as given.
TransactionId(id, ref) ==
    IF variant = "legacy" THEN ref
    ELSE IF ref # NULL THEN ref ELSE Some("admin_grant_id_ts")

\* The INSERT of grant_subscription.  No store enables foreign keys, so the
\* insert does not look at the users table.
GrantRecord(id, days, amount, ref) ==
    [user_id |-> id, amount |-> amount, transaction_id |-> TransactionId(id, ref)]

\* fail = "stmt1": the UPDATE raises; "stmt2": the INSERT raises.  The cloud
\* path has already sent the UPDATE when the INSERT raises; both SQLite
\* paths leave the UPDATE uncommitted.
grant_subscription(db, id, days, amount, ref, fail) ==
    CASE fail = "stmt1" -> [db |-> db, ret |-> FALSE]
      [] fail = "stmt2" ->
            [db |-> IF variant = "cloud"
                    THEN DB(GrantUpdate(db.users, id, days, amount, ref), db.payments)
                    ELSE db,
             ret |-> FALSE]
      [] OTHER ->
            [db |-> DB(GrantUpdate(db.users, id, days, amount, ref),
                       Append(db.payments, GrantRecord(id, days, amount, ref))),
             ret |-> TRUE]

\* ------------------------------------------------- store: expire_subscription
\* An UPDATE that touches updated_at alone.
ExpireUpdate_TouchOnly(tbl, id) == tbl

\* UPDATE users SET subscription_status = 'expired' WHERE user_id = id
ExpireUpdate(tbl, id) ==
    IF id \in DOMAIN tbl THEN [tbl EXCEPT ![id].status = "expired"] ELSE tbl

expire_subscription(db, id, fail) ==
    IF fail # "none"
    THEN [db |-> db, ret |-> FALSE]
    ELSE [db |-> DB(ExpireUpdate(db.users, id), db.payments), ret |-> TRUE]

\* ------------------------------------------------- store: is_user_subscribed
\* A missing end date read as "no expiry".
is_user_active_NoExpiry(db, id) ==
    LET user == get_user(db, id) IN
    IF user = NULL \/ Val(user).status # "active" THEN FALSE
    ELSE IF Val(user).end # NULL THEN now < Val(Val(user).end)
    ELSE TRUE

\* database.py: datetime.now() < end_date
is_user_active(db, id) ==
    LET user == get_user(db, id) IN
    IF user = NULL \/ Val(user).status # "active" THEN FALSE
    ELSE IF Val(user).end # NULL THEN now < Val(Val(user).end)
    ELSE FALSE

\* database_sqlite.py: expired only when datetime.now() > end_date
sqlite_expired(end_date) == now > end_date

\* database_sqlite.py: the value is_user_subscribed returns
sqlite_is_user_subscribed(db, id) ==
    LET user == get_user(db, id) IN
    IF user = NULL THEN FALSE
    ELSE IF Val(user).status # "active" THEN FALSE
    ELSE IF Val(user).end = NULL THEN FALSE
    ELSE ~sqlite_expired(Val(Val(user).end))

\* database_sqlite.py: is_user_subscribed calls expire_subscription when it
\* finds the window closed.
sqlite_lazy_expire(db, id) ==
    LET user == get_user(db, id) IN
    IF user # NULL /\ Val(user).status = "active" /\ Val(user).end # NULL
       /\ sqlite_expired(Val(Val(user).end))
    THEN expire_subscription(db, id, "none").db
    ELSE db

\* What isSubscribed(id) answers on the store in use.
isSubscribed(db, id) ==
    IF variant = "legacy" THEN sqlite_is_user_subscribed(db, id)
    ELSE is_user_active(db, id)

\* is_user_subscribed.  database.py has no try of its own: it relies on
\* get_user; database_sqlite.py wraps the whole body.
is_user_subscribed(db, id, fail) ==
    LET u == try_get_user(db, id, fail)
        r == IF u.raised THEN u ELSE Return(isSubscribed(Seen(db, u.ret, id), id))
        c == IF variant = "legacy" THEN except_Exception(r, FALSE) ELSE r
    IN  [db |-> IF variant = "legacy" /\ fail = "none"
                THEN sqlite_lazy_expire(db, id) ELSE db,
         ret |-> c.ret, raised |-> c.raised]

\* ------------------------------------------------- store: get_user_stats
\* A missing end date counted as a full standard period.
days_remaining_FullPeriod(user) ==
    IF user.end # NULL THEN Max(0, DaysOf(Val(user.end) - now)) ELSE subscription_days

\* max(0, (end_date - datetime.now()).days), 0 without an end date
days_remaining(user) ==
    IF user.end # NULL THEN Max(0, DaysOf(Val(user.end) - now)) ELSE 0

\* A dict: DOMAIN is its key set.  database.py builds no payment_amount key.
get_user_stats(db, id) ==
    LET user == get_user(db, id) IN
    IF user = NULL THEN [k \in {} |-> NULL]
    ELSE IF variant = "legacy"
    THEN [user_id |-> id,
          subscription_status |-> Val(user).status,
          subscription_start |-> Val(user).start,
          subscription_end |-> Val(user).end,
          payment_amount |-> Val(user).payment_amount,
          days_remaining |-> days_remaining(Val(user))]
    ELSE [user_id |-> id,
          subscription_status |-> Val(user).status,
          subscription_start |-> Val(user).start,
          subscription_end |-> Val(user).end,
          days_remaining |-> days_remaining(Val(user))]

\* get_user_stats with its try/except: {} on a backend failure
try_get_user_stats(db, id, fail) ==
    LET u == try_get_user(db, id, fail)
        r == IF u.raised THEN u ELSE Return(get_user_stats(Seen(db, u.ret, id), id))
    IN  except_Exception(r, [k \in {} |-> NULL])

\* ------------------------------------------------- store: get_all_active_users
\* The ids of the rows returned.  database.py filters on the end date (a NULL
\* end date passes); database_sqlite.py selects on the status column alone.
get_all_active_users(db) ==
    IF variant = "legacy"
    THEN {id \in DOMAIN db.users : db.users[id].status = "active"}
    ELSE {id \in DOMAIN db.users :
             /\ db.users[id].status = "active"
             /\ (db.users[id].end = NULL \/ now < Val(db.users[id].end))}

\* get_all_active_users with its try/except: [] on a backend failure
try_get_all_active_users(db, fail) ==
    except_Exception(execute(fail, get_all_active_users(db)), {})

\* database.py, get_all_users (ids of the rows): [] on a backend failure
try_get_all_users(db, fail) ==
    except_Exception(execute(fail, DOMAIN db.users), {})

\* ------------------------------------------------- store: the ordered lists
\* The sequences that hold each id of ids exactly once.
Perms(ids) ==
    {f \in [1..Cardinality(ids) -> ids] :
        \A i, j \in 1..Cardinality(ids) : i # j => f[i] # f[j]}

\* A sort key of a nullable column: SQLite and PostgREST's descending order
\* put NULL after every value.
EndKey(row) == IF row.end = NULL THEN -1 ELSE Val(row.end)

\* ORDER BY created_at DESC: every order of ids the backend may return (rows
\* with equal keys come in any order).
order_by_created_at_desc(tbl, ids) ==
    {f \in Perms(ids) :
        \A i \in 1..(Cardinality(ids) - 1) : tbl[f[i]].created >= tbl[f[i + 1]].created}

\* ORDER BY subscription_end_date DESC
order_by_end_date_desc(tbl, ids) ==
    {f \in Perms(ids) :
        \A i \in 1..(Cardinality(ids) - 1) : EndKey(tbl[f[i]]) >= EndKey(tbl[f[i + 1]])}

\* database.py, get_all_users: the lists it may return
list_all_users(db) == order_by_created_at_desc(db.users, DOMAIN db.users)

\* get_all_active_users: the lists it may return.  database.py orders by
\* created_at, database_sqlite.py by subscription_end_date.
list_active_users(db) ==
    IF variant = "legacy"
    THEN order_by_end_date_desc(db.users, get_all_active_users(db))
    ELSE order_by_created_at_desc(db.users, get_all_active_users(db))

\* ------------------------------------------------- store: log_usage
\* database.py inserts the usage_logs row and nothing else; database_sqlite.py
\* also adds one to queries_used, in the same transaction.
log_usage(tbl, logs, id, endpoint, fail) ==
    IF fail # "none"
    THEN [users |-> tbl, logs |-> logs, ret |-> FALSE]
    ELSE [users |-> IF variant = "legacy" /\ id \in DOMAIN tbl
                    THEN [tbl EXCEPT ![id].queries_used = @ + 1]
                    ELSE tbl,
          logs |-> Append(logs, [user_id |-> id, endpoint |-> endpoint]),
          ret |-> TRUE]

\* The grant records of one user.
RecordsOf(p, id) == {i \in 1..Len(p) : p[i].user_id = id}

\* ------------------------------------------------------------ bookkeeping
NoLast ==
    [op |-> "none", user |-> 0, days |-> 0, amount |-> 0, ref |-> NULL,
     ret |-> FALSE, at |-> 0, caller |-> "none", calls |-> 0, writes |-> 0,
     reply |-> "none", hadRow |-> FALSE, nPay |-> 0,
     status |-> "none", fail |-> "none", raised |-> FALSE, benign |-> FALSE,
     key |-> "none", rows |-> <<>>, body |-> {}, reported |-> "none",
     func |-> "none", attempts |-> 0, api_calls |-> 0, net |-> "none"]

\* The record of one call: what was asked, what came back, and what the
\* target looked like before (db0).
Call(op, id, days, amount, ref, ret, caller, calls, writes, reply, db0) ==
    [op |-> op, user |-> id, days |-> days, amount |-> amount, ref |-> ref,
     ret |-> ret, at |-> now, caller |-> caller, calls |-> calls, writes |-> writes,
     reply |-> reply,
     hadRow |-> id \in DOMAIN db0.users,
     nPay |-> Cardinality(RecordsOf(db0.payments, id)),
     status |-> "none", fail |-> "none", raised |-> FALSE, benign |-> FALSE,
     key |-> "none", rows |-> <<>>, body |-> {}, reported |-> "none",
     func |-> "none", attempts |-> 0, api_calls |-> 0, net |-> "none"]

Store == DB(users, payments)

Commit(r, rec) ==
    /\ users' = r.db.users
    /\ payments' = r.db.payments
    /\ last' = rec
    /\ UNCHANGED <<variant, now, usage_logs, process>>

\* ----------------------------------------------------- the store's operations
AddUser(id, name, fail) ==
    LET r == add_user(Store, id, name, fail) IN
    /\ Commit(r, [Call("add_user", id, 0, 0, NULL, r.ret, "store", 1, 1, "none", Store)
                     EXCEPT !.fail = fail, !.benign = ~r.ret])
    /\ UNCHANGED <<activated, expiredSince>>

UpdateSubscription(id, status, days, fail) ==
    LET r == update_subscription(Store, id, status, days, fail) IN
    /\ variant # "legacy"
    /\ Commit(r, [Call("update_subscription", id, days, 0, NULL, r.ret, "store", 1,
                       1, "none", Store)
                     EXCEPT !.status = status, !.fail = fail, !.benign = ~r.ret])
    /\ activated' = IF status = "active" THEN activated \cup {id} ELSE activated
    /\ expiredSince' = IF status = "active" THEN expiredSince \ {id} ELSE expiredSince

GrantSubscription(id, days, amount, ref, fail) ==
    LET r == grant_subscription(Store, id, days, amount, ref, fail) IN
    /\ Len(payments) < MaxPayments
    /\ Commit(r, [Call("grant_subscription", id, days, amount, ref, r.ret, "store", 1,
                       1, "none", Store)
                     EXCEPT !.fail = fail, !.benign = ~r.ret])
    /\ activated' = activated \cup {id}
    /\ expiredSince' = expiredSince \ {id}

ExpireSubscription(id, fail) ==
    LET r == expire_subscription(Store, id, fail) IN
    /\ Commit(r, [Call("expire_subscription", id, 0, 0, NULL, r.ret, "store", 1,
                       1, "none", Store)
                     EXCEPT !.fail = fail, !.benign = ~r.ret])
    /\ expiredSince' = IF r.ret THEN expiredSince \cup {id} ELSE expiredSince
    /\ UNCHANGED activated

IsUserSubscribed(id, fail) ==
    LET r == is_user_subscribed(Store, id, fail) IN
    /\ Commit(r, [Call("is_user_subscribed", id, 0, 0, NULL, r.ret, "store", 1,
                       0, "none", Store)
                     EXCEPT !.fail = fail, !.raised = r.raised,
                            !.benign = (~r.raised /\ r.ret = FALSE)])
    /\ UNCHANGED <<activated, expiredSince>>

\* A read of the store: only its result is recorded.
Read(op, id, r, fail, benign) ==
    /\ last' = [Call(op, id, 0, 0, NULL, FALSE, "store", 1, 0, "none", Store)
                  EXCEPT !.fail = fail, !.raised = r.raised, !.benign = benign]
    /\ UNCHANGED <<variant, now, users, payments, usage_logs, activated, expiredSince,
                   process>>

GetUser(id, fail) ==
    LET r == try_get_user(Store, id, fail) IN
    Read("get_user", id, r, fail, ~r.raised /\ r.ret = NULL)

GetUserStats(id, fail) ==
    LET r == try_get_user_stats(Store, id, fail) IN
    Read("get_user_stats", id, r, fail, ~r.raised /\ DOMAIN r.ret = {})

GetAllUsers(fail) ==
    LET r == try_get_all_users(Store, fail) IN
    /\ variant # "legacy"
    /\ Read("get_all_users", 0, r, fail, ~r.raised /\ r.ret = {})

GetAllActiveUsers(fail) ==
    LET r == try_get_all_active_users(Store, fail) IN
    Read("get_all_active_users", 0, r, fail, ~r.raised /\ r.ret = {})

\* get_all_users, with the order of the rows it returns.
ListAllUsers(rows) ==
    /\ variant # "legacy"
    /\ rows \in list_all_users(Store)
    /\ last' = [Call("list_all_users", 0, 0, 0, NULL, FALSE, "store", 1, 0, "none", Store)
                  EXCEPT !.rows = rows]
    /\ UNCHANGED <<variant, now, users, payments, usage_logs, activated, expiredSince,
                   process>>

\* get_all_active_users, with the order of the rows it returns.
ListActiveUsers(rows) ==
    /\ rows \in list_active_users(Store)
    /\ last' = [Call("list_active_users", 0, 0, 0, NULL, FALSE, "store", 1, 0, "none",
                     Store)
                  EXCEPT !.rows = rows]
    /\ UNCHANGED <<variant, now, users, payments, usage_logs, activated, expiredSince,
                   process>>

LogUsage(id, endpoint, fail) ==
    LET r == log_usage(users, usage_logs, id, endpoint, fail) IN
    /\ Len(usage_logs) < MaxLogs
    /\ users' = r.users
    /\ usage_logs' = r.logs
    /\ last' = [Call("log_usage", id, 0, 0, NULL, r.ret, "store", 1, 1, "none", Store)
                  EXCEPT !.fail = fail, !.benign = ~r.ret]
    /\ UNCHANGED <<variant, now, payments, activated, expiredSince, process>>

\* The clock moves on between any two operations.
\* last is kept for less than a day: it is what "immediately after the call" sees.
Tick ==
    /\ now < MaxTime
    /\ now' = now + 1
    /\ last' = IF last.op # "none" /\ (now + 1) - last.at >= TicksPerDay THEN NoLast ELSE last
    /\ UNCHANGED <<variant, users, payments, usage_logs, activated, expiredSince,
                   process>>

\* ------------------------------------------------------------ admin surfaces
\* context.args / callback data / URL parameter, parsed: no argument, one
\* that int() rejects, or a user id.
Args == {[kind |-> "none", id |-> 0], [kind |-> "bad", id |-> 0]}
            \cup {[kind |-> "id", id |-> u] : u \in UserIds}
CallbackData ==
    {[kind |-> k, id |-> 0] : k \in {"stats", "active_users", "all_users", "revenue"}}
        \cup {[kind |-> k, id |-> u] : k \in {"grant", "revoke", "userinfo"}, u \in UserIds}
ApiKeys == {"ADMIN_API_KEY", "wrong"}

\* What a handler did: the store it leaves, the number of store calls it
\* made and how many of them write, its reply, and what its grant or expire
\* call returned.
Out(db, calls, writes, reply, ret) ==
    [db |-> db, calls |-> calls, writes |-> writes, reply |-> reply, ret |-> ret]

is_admin(caller) == caller \in admin_user_ids

\* An error handler that only logs.
error_handler_LogOnly(error, has_message) == "none"

\* main.py, OSINTAdminBot.error_handler: what the admin is sent when an
\* exception leaves a handler.  A "Conflict" error is logged and dropped; any
\* other is answered on update.effective_message when there is one.
error_handler(error, has_message) ==
    IF error = "Conflict" THEN "none"
    ELSE IF has_message THEN "handler_error"
    ELSE "none"

\* main.py, OSINTAdminBot.grant_command
grant_command(db, caller, arg, name, ref, fAdd, fGrant) ==
    IF ~is_admin(caller) THEN Out(db, 0, 0, "denied", FALSE)
    ELSE IF arg.kind = "none" THEN Out(db, 0, 0, "usage", FALSE)
    ELSE IF arg.kind = "bad" THEN Out(db, 0, 0, "invalid", FALSE)
    ELSE
      LET found == get_user(db, arg.id)
          added == IF found = NULL THEN add_user(db, arg.id, name, fAdd).db ELSE db
          user_data == get_user(added, arg.id)
          payment_ref == IF ref = NULL THEN Some("ADMIN_GRANT_date") ELSE ref
          g == grant_subscription(added, arg.id, subscription_days, subscription_price,
                                  payment_ref, fGrant)
          n == IF found = NULL THEN 4 ELSE 2
          w == IF found = NULL THEN 2 ELSE 1
      IN  IF g.ret
          THEN IF user_data = NULL
               THEN Out(g.db, n + 1, w, "error", TRUE)
               ELSE Out(g.db, n + 1, w, "granted", TRUE)
          ELSE Out(g.db, n, w, "grant_failed", FALSE)

\* main.py, OSINTAdminBot.revoke_command
revoke_command(db, caller, arg, fail) ==
    IF ~is_admin(caller) THEN Out(db, 0, 0, "denied", FALSE)
    ELSE IF arg.kind = "none" THEN Out(db, 0, 0, "usage", FALSE)
    ELSE IF arg.kind = "bad" THEN Out(db, 0, 0, "invalid", FALSE)
    ELSE IF get_user(db, arg.id) = NULL THEN Out(db, 1, 0, "not_found", FALSE)
    ELSE LET e == expire_subscription(db, arg.id, fail)
         IN  IF e.ret THEN Out(e.db, 2, 1, "revoked", TRUE)
             ELSE Out(e.db, 2, 1, "revoke_failed", FALSE)

\* main.py, OSINTAdminBot.quick_grant
quick_grant(db, id, fail) ==
    LET g == grant_subscription(db, id, subscription_days, subscription_price,
                                Some("QUICK_GRANT_date"), fail)
    IN  IF g.ret THEN Out(g.db, 1, 1, "granted", TRUE)
        ELSE Out(g.db, 1, 1, "grant_failed", FALSE)

\* main.py, OSINTAdminBot.quick_revoke
quick_revoke(db, id, fail) ==
    LET e == expire_subscription(db, id, fail)
    IN  IF e.ret THEN Out(e.db, 1, 1, "revoked", TRUE)
        ELSE Out(e.db, 1, 1, "revoke_failed", FALSE)

\* main.py, OSINTAdminBot.refresh_userinfo: database.py's stats have no
\* payment_amount key, so the lookup raises and the except branch replies.
refresh_userinfo(db, id) ==
    IF get_user(db, id) = NULL THEN Out(db, 2, 0, "not_found", FALSE)
    ELSE IF "payment_amount" \in DOMAIN get_user_stats(db, id)
    THEN Out(db, 2, 0, "userinfo", FALSE)
    ELSE Out(db, 2, 0, "error", FALSE)

\* main.py, OSINTAdminBot.callback_query_handler.  A callback update has no
\* update.message, so the stats branch ends in the bot's error handler; the
\* all_users and revenue branches read db_path and payment_logs, which the
\* cloud path and the SQLite path of database.py do not both have.
callback_query_handler(db, caller, data, fail) ==
    IF ~is_admin(caller) THEN Out(db, 0, 0, "denied", FALSE)
    ELSE CASE data.kind = "stats" ->
                Out(db, 1, 0, error_handler("AttributeError", TRUE), FALSE)
           [] data.kind = "active_users" -> Out(db, 1, 0, "active_users", FALSE)
           [] data.kind = "all_users" ->
                IF variant = "cloud" THEN Out(db, 0, 0, "error", FALSE)
                ELSE Out(db, 0, 0, "all_users", FALSE)
           [] data.kind = "revenue" -> Out(db, 1, 0, "error", FALSE)
           [] data.kind = "grant" -> quick_grant(db, data.id, fail)
           [] data.kind = "revoke" -> quick_revoke(db, data.id, fail)
           [] OTHER -> refresh_userinfo(db, data.id)

\* A decorator that lets every request through.
require_api_key_Any(key) == TRUE

\* hybrid_admin.py, require_api_key
require_api_key(key) == key = "ADMIN_API_KEY"

\* hybrid_admin.py, GET /api/stats: get_all_active_users, then a count of the
\* users table taken from the backend directly.
rest_get_stats(db, key, fail) ==
    IF ~require_api_key(key) THEN Out(db, 0, 0, "invalid_api_key", FALSE)
    ELSE IF fail # "none" THEN Out(db, 1, 0, "error", FALSE)
    ELSE Out(db, 1, 0, "stats", FALSE)

\* hybrid_admin.py, POST /api/users/<id>/grant: the key is the only check.
rest_grant_subscription(db, key, id, days, price, fAdd, fGrant) ==
    IF ~require_api_key(key) THEN Out(db, 0, 0, "invalid_api_key", FALSE)
    ELSE
      LET found == get_user(db, id)
          added == IF found = NULL
                   THEN add_user(db, id, Some("alice"), fAdd).db
                   ELSE db
          g == grant_subscription(added, id, days, price, NULL, fGrant)
          n == IF found = NULL THEN 3 ELSE 2
          w == IF found = NULL THEN 2 ELSE 1
      IN  IF g.ret THEN Out(g.db, n, w, "granted", TRUE)
          ELSE Out(g.db, n, w, "grant_failed", FALSE)

\* hybrid_admin.py, grant_command (chat)
hybrid_grant_command(db, caller, arg, days, fail) ==
    IF ~is_admin(caller) THEN Out(db, 0, 0, "denied", FALSE)
    ELSE IF arg.kind = "none" THEN Out(db, 0, 0, "usage", FALSE)
    ELSE IF arg.kind = "bad" THEN Out(db, 0, 0, "invalid", FALSE)
    ELSE IF get_user(db, arg.id) = NULL THEN Out(db, 1, 0, "not_found", FALSE)
    ELSE LET g == grant_subscription(db, arg.id, days, subscription_price, NULL, fail)
         IN  IF g.ret THEN Out(g.db, 2, 1, "granted", TRUE)
             ELSE Out(g.db, 2, 1, "grant_failed", FALSE)

\* ---------------------------------------------------- admin actions as steps
\* main.py and hybrid_admin.py import DatabaseManager from database.py.
Handle(op, o, id, days, amount, ref, caller) ==
    /\ variant # "legacy"
    /\ Commit(o, Call(op, id, days, amount, ref, o.ret, caller, o.calls, o.writes,
                      o.reply, Store))

\* The history variables after a handler: did it ask for a grant, did it expire.
Grants(op, o, id) ==
    /\ activated' = IF o.writes > 0 /\ op \in {"grant", "callback_grant"}
                    THEN activated \cup {id} ELSE activated
    /\ expiredSince' =
          IF o.writes > 0 /\ op \in {"grant", "callback_grant"} THEN expiredSince \ {id}
          ELSE IF o.ret /\ op \in {"revoke", "callback_revoke"} THEN expiredSince \cup {id}
          ELSE expiredSince

GrantCommand(caller, arg, name, ref, fAdd, fGrant) ==
    LET o == grant_command(Store, caller, arg, name, ref, fAdd, fGrant) IN
    /\ Len(payments) < MaxPayments
    /\ Handle("grant_command", o, arg.id, subscription_days, subscription_price, ref, caller)
    /\ Grants("grant", o, arg.id)

RevokeCommand(caller, arg, fail) ==
    LET o == revoke_command(Store, caller, arg, fail) IN
    /\ Handle("revoke_command", o, arg.id, 0, 0, NULL, caller)
    /\ Grants("revoke", o, arg.id)

CallbackQuery(caller, data, fail) ==
    LET o == callback_query_handler(Store, caller, data, fail) IN
    /\ Len(payments) < MaxPayments
    /\ Handle("callback_" \o data.kind, o, data.id, 0, 0, NULL, caller)
    /\ Grants("callback_" \o data.kind, o, data.id)

RestGrant(caller, key, id, days, price, fAdd, fGrant) ==
    LET o == rest_grant_subscription(Store, key, id, days, price, fAdd, fGrant) IN
    /\ Len(payments) < MaxPayments
    /\ variant # "legacy"
    /\ Commit(o, [Call("rest_grant", id, days, price, NULL, o.ret, caller, o.calls,
                       o.writes, o.reply, Store)
                     EXCEPT !.key = key])
    /\ Grants("grant", o, id)

RestStats(caller, key, fail) ==
    LET o == rest_get_stats(Store, key, fail) IN
    /\ variant # "legacy"
    /\ Commit(o, [Call("rest_stats", 0, 0, 0, NULL, o.ret, caller, o.calls,
                       o.writes, o.reply, Store)
                     EXCEPT !.key = key, !.fail = fail])
    /\ UNCHANGED <<activated, expiredSince>>

HybridGrantCommand(caller, arg, days, fail) ==
    LET o == hybrid_grant_command(Store, caller, arg, days, fail) IN
    /\ Len(payments) < MaxPayments
    /\ Handle("hybrid_grant_command", o, arg.id, days, subscription_price, NULL, caller)
    /\ Grants("grant", o, arg.id)

\* ------------------------------------------------ store calls, step by step
\* A call in flight: what it is, where it stands, its target, what it has read
\* or computed so far, and what it returned.
Flight(op, pc, id, seen, ret) == [op |-> op, pc |-> pc, user |-> id, seen |-> seen, ret |-> ret]

Free(p) == inflight[p].pc \in {"done", "returned"}

\* SQLite lets one connection write at a time: a connection that has executed
\* a write statement holds the lock until it commits.  The cloud backend has
\* no such lock.
LockHeld ==
    /\ variant # "cloud"
    /\ \E p \in Procs : inflight[p].op = "log_usage" /\ inflight[p].pc \in {"inserted", "updated"}

\* Whether a connection's first write statement is let through.
MayWrite == ~LockHeld

\* log_usage, first statement: the INSERT into usage_logs, which on SQLite
\* opens the write transaction.  Each caller makes one call.
LogInsert(p, id) ==
    /\ inflight[p].op = "idle"
    /\ id \in DOMAIN users
    /\ MayWrite
    /\ inflight' = [inflight EXCEPT ![p] = Flight("log_usage", "inserted", id, NULL, FALSE)]
    /\ UNCHANGED <<variant, now, users, payments, usage_logs, last, activated, expiredSince,
                   is_healthy, conflict>>

\* log_usage when another connection holds the lock until the busy timeout:
\* the INSERT raises and the call returns False.
LogBusy(p, id) ==
    /\ inflight[p].op = "idle"
    /\ id \in DOMAIN users
    /\ LockHeld
    /\ inflight' = [inflight EXCEPT ![p] = Flight("log_usage", "returned", id, NULL, FALSE)]
    /\ last' = [Call("log_usage", id, 0, 0, NULL, FALSE, "store", 1, 1, "none", Store)
                  EXCEPT !.fail = "stmt1", !.benign = TRUE]
    /\ UNCHANGED <<variant, now, users, payments, usage_logs, activated, expiredSince,
                   is_healthy, conflict>>

\* database_sqlite.py, log_usage, second statement: UPDATE users SET
\* queries_used = queries_used + 1, evaluated inside the open transaction.
LogUpdate(p) ==
    /\ variant = "legacy"
    /\ inflight[p].op = "log_usage" /\ inflight[p].pc = "inserted"
    /\ inflight' = [inflight EXCEPT ![p].pc = "updated",
                                    ![p].seen = Some(users[inflight[p].user].queries_used + 1)]
    /\ UNCHANGED <<variant, now, users, payments, usage_logs, last, activated, expiredSince,
                   is_healthy, conflict>>

\* log_usage: conn.commit() (the insert's execute() on the cloud backend) and
\* return True.
LogCommit(p) ==
    LET f == inflight[p] IN
    /\ f.op = "log_usage"
    /\ f.pc = IF variant = "legacy" THEN "updated" ELSE "inserted"
    /\ usage_logs' = Append(usage_logs, [user_id |-> f.user, endpoint |-> "lookup"])
    /\ users' = IF f.seen = NULL THEN users
                ELSE [users EXCEPT ![f.user].queries_used = Val(f.seen)]
    /\ inflight' = [inflight EXCEPT ![p].pc = "returned", ![p].ret = TRUE]
    /\ last' = Call("log_usage", f.user, 0, 0, NULL, TRUE, "store", 1, 1, "none", Store)
    /\ UNCHANGED <<variant, now, payments, activated, expiredSince, is_healthy, conflict>>

\* The store with the row of id as a caller read it earlier.
Snapshot(db, id, seen) ==
    IF seen = NULL
    THEN DB([x \in (DOMAIN db.users) \ {id} |-> db.users[x]], db.payments)
    ELSE DB(Put(db.users, id, Val(seen)), db.payments)

\* is_user_subscribed, first statement: get_user reads the row on a
\* connection of its own.  One check is followed at a time.
CheckRead(p, id) ==
    /\ \A q \in Procs : Free(q)
    /\ inflight' = [inflight EXCEPT
                       ![p] = Flight("is_user_subscribed", "read", id, get_user(Store, id), FALSE)]
    /\ UNCHANGED <<variant, now, users, payments, usage_logs, last, activated, expiredSince,
                   is_healthy, conflict>>

\* is_user_subscribed, the rest: the answer is computed from the row that was
\* read; database_sqlite.py, finding that row's window closed, calls
\* expire_subscription, whose UPDATE runs on the table as it is by then.
CheckFinish(p) ==
    LET f == inflight[p]
        snap == Snapshot(Store, f.user, f.seen)
        stale == variant = "legacy" /\ sqlite_lazy_expire(snap, f.user) # snap
        r == IF stale THEN expire_subscription(Store, f.user, "none")
             ELSE [db |-> Store, ret |-> TRUE]
        ret == isSubscribed(snap, f.user)
    IN  /\ f.op = "is_user_subscribed" /\ f.pc = "read"
        /\ users' = r.db.users
        /\ inflight' = [inflight EXCEPT ![p] = Idle]
        /\ last' = Call("is_user_subscribed", f.user, 0, 0, NULL, ret, "store", 1, 0,
                        "none", Store)
        /\ UNCHANGED <<variant, now, payments, usage_logs, activated, expiredSince,
                       is_healthy, conflict>>

\* The two numbers a stats action can read off the store at one moment.
stats_snapshot(db) ==
    [active |-> Cardinality(get_all_active_users(db)),
     total |-> Cardinality(DOMAIN db.users)]

\* A stats action that counts the users first and the active ones later.
stats_report_TotalFirst(first, second) ==
    [active_subscriptions |-> second.active, total_users |-> first.total]

\* hybrid_admin.py, get_stats and stats_command: get_all_active_users is
\* called first, the users table is counted afterwards, each on a connection
\* of its own.
stats_report(first, second) ==
    [active_subscriptions |-> first.active, total_users |-> second.total]

Surfaces == {"rest", "chat"}

\* The stats action of an authorised caller, first read: get_all_active_users.
\* One stats action is followed at a time.
StatsActive(p, surface) ==
    /\ variant # "legacy"
    /\ Free(p)
    /\ \A q \in Procs \ {p} : inflight[q] = Idle
    /\ inflight' = [inflight EXCEPT
                       ![p] = Flight("stats_" \o surface, "active_read", 0,
                                     Some(stats_snapshot(Store)), FALSE)]
    /\ UNCHANGED <<variant, now, users, payments, usage_logs, last, activated, expiredSince,
                   is_healthy, conflict>>

\* The stats action, second read and reply: the count of the users table.
StatsTotal(p) ==
    LET f == inflight[p]
        report == stats_report(Val(f.seen), stats_snapshot(Store))
    IN  /\ f.pc = "active_read"
        /\ inflight' = [inflight EXCEPT ![p].pc = "returned", ![p].seen = Some(report),
                                        ![p].ret = TRUE]
        /\ last' = Call(f.op, 0, 0, 0, NULL, FALSE,
                        IF f.op = "stats_rest" THEN "api" ELSE "primary_admin", 2, 0,
                        "stats", Store)
        /\ UNCHANGED <<variant, now, users, payments, usage_logs, activated, expiredSince,
                       is_healthy, conflict>>

\* ------------------------------------------------------- liveness reporter
\* The status functions a HealthCheckServer can be built with: the admin
\* bot's, the server's default, and one that raises.
StatusFuncs == {"get_health_status", "_default_status", "raising"}
Paths == {"/health", "/status", "/nope"}
Errors == {"Conflict", "NetworkError"}

\* main.py, OSINTAdminBot.get_health_status: the flag and the uptime; db is
\* tested for None, not called.
get_health_status(flag) == [healthy |-> flag, uptime |-> now, calls |-> 0]

\* health_check.py, HealthCheckServer._default_status
default_status == [healthy |-> TRUE, uptime |-> 0, calls |-> 0]

\* self.bot_status_func()
bot_status_func(f, flag) ==
    CASE f = "get_health_status" -> Return(get_health_status(flag))
      [] f = "_default_status" -> Return(default_status)
      [] OTHER -> Raise

Response(code, body, calls, reported) ==
    [code |-> code, body |-> body, calls |-> calls, reported |-> reported]

\* What the status function told the handler.
Reported(r) ==
    IF r.raised THEN "raised" ELSE IF r.ret.healthy THEN "healthy" ELSE "unhealthy"

StoreCalls(r) == IF r.raised THEN 0 ELSE r.ret.calls

\* A health check that answers 200 whatever the status function says.
health_check_Always200(r) ==
    Response("200", {"status", "timestamp", "uptime_seconds"}, StoreCalls(r), Reported(r))

\* health_check.py, HealthCheckHandler.health_check
health_check(r) ==
    IF r.raised THEN Response("503", {}, 0, "raised")
    ELSE IF r.ret.healthy
    THEN Response("200", {"status", "timestamp", "uptime_seconds"}, r.ret.calls, "healthy")
    ELSE Response("503", {}, r.ret.calls, "unhealthy")

\* health_check.py, HealthCheckHandler.detailed_status
detailed_status(r) ==
    IF r.raised THEN Response("500", {}, 0, "raised")
    ELSE Response("200", {"bot_status", "system", "timestamp"}, r.ret.calls, Reported(r))

\* health_check.py, HealthCheckHandler.do_GET
do_GET(path, f, flag) ==
    CASE path = "/health" -> health_check(bot_status_func(f, flag))
      [] path = "/status" -> detailed_status(bot_status_func(f, flag))
      [] OTHER -> Response("404", {}, 0, "none")

\* An error handler that leaves the health flag alone.
error_handler_is_healthy_Keep(error, flag) == flag

\* main.py, OSINTAdminBot.error_handler: self.is_healthy after the handler
error_handler_is_healthy(error, flag) == IF error = "Conflict" THEN FALSE ELSE flag

\* A request to the health server built with status function f.
HealthGet(path, f) ==
    LET o == do_GET(path, f, is_healthy) IN
    /\ last' = [Call("GET " \o path, 0, 0, 0, NULL, FALSE, "monitor", o.calls, 0,
                     o.code, Store)
                  EXCEPT !.body = o.body, !.reported = o.reported, !.func = f]
    /\ UNCHANGED <<variant, now, users, payments, usage_logs, activated, expiredSince,
                   process>>

\* The framework hands an error to the bot's error handler.
ErrorHandler(error, has_message) ==
    /\ variant # "legacy"
    /\ is_healthy' = error_handler_is_healthy(error, is_healthy)
    /\ conflict' = (conflict \/ error = "Conflict")
    /\ last' = [Call("error_handler", 0, 0, 0, NULL, FALSE, "framework", 0, 0,
                     error_handler(error, has_message), Store)
                  EXCEPT !.status = error]
    /\ UNCHANGED <<variant, now, users, payments, usage_logs, activated, expiredSince,
                   inflight>>

\* ------------------------------------------------------- the API client
\* What happens to the one HTTP request of a call: answered, answered with a
\* status of 400 or more, timed out after 30 s, or never connected.
NetOutcomes == {"ok", "http_error", "timeout", "connection_failed"}
ClientCommands == {"grant", "revoke", "stats", "health"}

\* The dict a call returns, reduced to the keys the handlers read.
Result(error, is_admin_, success) ==
    [error |-> error, is_admin |-> is_admin_, success |-> success]
ErrorResult == Result(TRUE, FALSE, FALSE)

\* telegram_client.py, APIClient.request: one session.request; a response
\* with status >= 400, a ClientError and any other exception (a timeout among
\* them) each end in a return of {'error': ...}.
request(net, body) ==
    CASE net = "ok" -> [result |-> body, raised |-> FALSE, attempts |-> 1]
      [] net = "http_error" -> [result |-> ErrorResult, raised |-> FALSE, attempts |-> 1]
      [] OTHER -> [result |-> ErrorResult, raised |-> FALSE, attempts |-> 1]

\* telegram_client.py, APIClient.verify_admin
verify_admin(r) == IF r.result.error THEN FALSE ELSE r.result.is_admin

ClientOut(reply, calls, attempts, raised, net) ==
    [reply |-> reply, api_calls |-> calls, attempts |-> attempts, raised |-> raised,
     net |-> net]

\* telegram_client.py: grant_command, revoke_command, stats_command and
\* health_command.  Each asks the server whether the caller is an admin, then
\* makes its own call; srv is what the server answers when it is reached.
client_command(cmd, arg, srv, net1, net2) ==
    LET v == request(net1, Result(FALSE, srv.is_admin, FALSE))
        c == request(net2, Result(FALSE, FALSE, srv.success))
        n == v.attempts + c.attempts
    IN  IF ~verify_admin(v) THEN ClientOut("denied", 1, v.attempts, v.raised, net1)
        ELSE IF cmd \in {"grant", "revoke"} /\ arg.kind = "none"
        THEN ClientOut("usage", 1, v.attempts, v.raised, net1)
        ELSE IF cmd \in {"grant", "revoke"} /\ arg.kind = "bad"
        THEN ClientOut("invalid", 1, v.attempts, v.raised, net1)
        ELSE IF c.result.error THEN ClientOut("error", 2, n, c.raised, net2)
        ELSE IF cmd \in {"stats", "health"} THEN ClientOut(cmd, 2, n, c.raised, net2)
        ELSE IF c.result.success
        THEN ClientOut(IF cmd = "grant" THEN "granted" ELSE "revoked", 2, n, c.raised, net2)
        ELSE ClientOut(IF cmd = "grant" THEN "grant_failed" ELSE "revoke_failed",
                       2, n, c.raised, net2)

\* A command sent to the client bot.
ClientCommand(caller, cmd, arg, srv, net1, net2) ==
    LET o == client_command(cmd, arg, srv, net1, net2) IN
    /\ last' = [Call("client_" \o cmd, arg.id, 0, 0, NULL, FALSE, caller, 0, 0, o.reply,
                     Store)
                  EXCEPT !.attempts = o.attempts, !.api_calls = o.api_calls,
                         !.raised = o.raised, !.net = o.net]
    /\ UNCHANGED <<variant, now, users, payments, usage_logs, activated, expiredSince,
                   process>>

\* ------------------------------------------------------------ specification
\* After construction: the backend is chosen, the tables exist and are empty.
Init ==
    /\ variant \in Variants
    /\ now = 0
    /\ users = [x \in {} |-> NULL]
    /\ payments = <<>>
    /\ usage_logs = <<>>
    /\ last = NoLast
    /\ activated = {}
    /\ expiredSince = {}
    /\ inflight = [p \in Procs |-> Idle]
    /\ is_healthy = TRUE
    /\ conflict = FALSE

\* No backend call fails in these two specifications.
StoreNext ==
    \/ \E id \in UserIds, name \in Names : AddUser(id, name, "none")
    \/ \E id \in UserIds, status \in Statuses, days \in Days :
          UpdateSubscription(id, status, days, "none")
    \/ \E id \in UserIds, days \in Days, p \in Payments :
          GrantSubscription(id, days, p.amount, p.ref, "none")
    \/ \E id \in UserIds : ExpireSubscription(id, "none")
    \/ \E id \in UserIds : IsUserSubscribed(id, "none")
    \/ Tick

AdminNext ==
    \/ \E caller \in Callers, arg \in Args, name \in Names, ref \in Refs :
          GrantCommand(caller, arg, name, ref, "none", "none")
    \/ \E caller \in Callers, arg \in Args : RevokeCommand(caller, arg, "none")
    \/ \E caller \in Callers, data \in CallbackData : CallbackQuery(caller, data, "none")
    \/ \E caller \in Callers, key \in ApiKeys, id \in UserIds, days \in Days :
          RestGrant(caller, key, id, days, subscription_price, "none", "none")
    \/ \E caller \in Callers, key \in ApiKeys : RestStats(caller, key, "none")
    \/ \E caller \in Callers, arg \in Args, days \in Days :
          HybridGrantCommand(caller, arg, days, "none")
    \/ \E id \in UserIds, name \in Names : AddUser(id, name, "none")

\* The store as its clients use it.
Next == StoreNext

Spec == Init /\ [][Next]_vars

\* The admin surfaces over the store.
AdminSpec == Init /\ [][AdminNext]_vars

\* The store with its backend failing at any call.
FailNext ==
    \/ \E id \in UserIds, name \in Names, fail \in {"none", "stmt1"} : AddUser(id, name, fail)
    \/ \E id \in UserIds, status \in Statuses, days \in Days, fail \in {"none", "stmt1"} :
          UpdateSubscription(id, status, days, fail)
    \/ \E id \in UserIds, days \in Days, p \in Payments, fail \in FailPoints :
          GrantSubscription(id, days, p.amount, p.ref, fail)
    \/ \E id \in UserIds, fail \in {"none", "stmt1"} : ExpireSubscription(id, fail)
    \/ \E id \in UserIds, fail \in {"none", "stmt1"} : IsUserSubscribed(id, fail)
    \/ \E id \in UserIds, fail \in {"none", "stmt1"} : GetUser(id, fail)
    \/ \E id \in UserIds, fail \in {"none", "stmt1"} : GetUserStats(id, fail)
    \/ \E fail \in {"none", "stmt1"} : GetAllUsers(fail)
    \/ \E fail \in {"none", "stmt1"} : GetAllActiveUsers(fail)
    \/ \E id \in UserIds, fail \in FailPoints : LogUsage(id, "lookup", fail)

FailSpec == Init /\ [][FailNext]_vars

\* The admin surfaces with the backend failing at any store call.
AdminFailNext ==
    \/ \E caller \in Callers, arg \in Args, name \in Names,
          fAdd \in {"none", "stmt1"}, fGrant \in FailPoints :
          GrantCommand(caller, arg, name, NULL, fAdd, fGrant)
    \/ \E caller \in Callers, arg \in Args, fail \in {"none", "stmt1"} :
          RevokeCommand(caller, arg, fail)
    \/ \E caller \in Callers, data \in CallbackData, fail \in FailPoints :
          CallbackQuery(caller, data, fail)
    \/ \E caller \in Callers, key \in ApiKeys, id \in UserIds,
          fAdd \in {"none", "stmt1"}, fGrant \in FailPoints :
          RestGrant(caller, key, id, subscription_days, subscription_price, fAdd, fGrant)
    \/ \E caller \in Callers, key \in ApiKeys, fail \in {"none", "stmt1"} :
          RestStats(caller, key, fail)
    \/ \E caller \in Callers, arg \in Args, fail \in FailPoints :
          HybridGrantCommand(caller, arg, subscription_days, fail)
    \/ \E id \in UserIds, name \in Names : AddUser(id, name, "none")

AdminFailSpec == Init /\ [][AdminFailNext]_vars

\* The admin bot of main.py with its health server and its error handler.
HealthNext ==
    \/ \E path \in Paths, f \in StatusFuncs : HealthGet(path, f)
    \/ \E error \in Errors, has_message \in BOOLEAN : ErrorHandler(error, has_message)
    \/ \E caller \in Callers, arg \in Args, name \in Names :
          GrantCommand(caller, arg, name, NULL, "none", "none")
    \/ \E caller \in Callers, arg \in Args : RevokeCommand(caller, arg, "none")
    \/ Tick

HealthSpec == Init /\ [][HealthNext]_vars

\* The client bot of telegram_client.py; the store is behind the API server.
ClientNext ==
    \E caller \in Callers, cmd \in ClientCommands, arg \in Args,
          srv \in [is_admin : BOOLEAN, success : BOOLEAN],
          net1 \in NetOutcomes, net2 \in NetOutcomes :
          ClientCommand(caller, cmd, arg, srv, net1, net2)

ClientSpec == Init /\ [][ClientNext]_vars

\* Concurrent log_usage calls for one existing user, one call per caller.
LogInit ==
    /\ variant \in Variants
    /\ now = 0
    /\ users \in {[x \in {id} |-> NewRow(name)] : id \in UserIds, name \in Names}
    /\ payments = <<>>
    /\ usage_logs = <<>>
    /\ last = NoLast
    /\ activated = {}
    /\ expiredSince = {}
    /\ inflight = [p \in Procs |-> Idle]
    /\ is_healthy = TRUE
    /\ conflict = FALSE

LogNext ==
    \/ \E p \in Procs, id \in UserIds : LogInsert(p, id)
    \/ \E p \in Procs, id \in UserIds : LogBusy(p, id)
    \/ \E p \in Procs : LogUpdate(p)
    \/ \E p \in Procs : LogCommit(p)
    \/ Tick

LogSpec == LogInit /\ [][LogNext]_vars

\* Subscription checks running next to grants and expiries.
RaceNext ==
    \/ \E id \in UserIds, name \in Names : AddUser(id, name, "none")
    \/ \E id \in UserIds, days \in Days :
          GrantSubscription(id, days, subscription_price, NULL, "none")
    \/ \E id \in UserIds : ExpireSubscription(id, "none")
    \/ \E p \in Procs, id \in UserIds : CheckRead(p, id)
    \/ \E p \in Procs : CheckFinish(p)
    \/ Tick

RaceSpec == Init /\ [][RaceNext]_vars

\* hybrid_admin.py: the stats action of one surface next to the store calls
\* the other surface makes (Flask runs in a thread of its own).
StatsNext ==
    \/ \E p \in Procs, surface \in Surfaces : StatsActive(p, surface)
    \/ \E p \in Procs : StatsTotal(p)
    \/ \E id \in UserIds, name \in Names : AddUser(id, name, "none")
    \/ \E id \in UserIds, days \in Days :
          GrantSubscription(id, days, subscription_price, NULL, "none")
    \/ \E id \in UserIds : ExpireSubscription(id, "none")

StatsSpec == Init /\ [][StatsNext]_vars

\* The subscription predicate over every row the users schema admits.  The
\* table is shared with the user-facing bot and both status and end date are
\* independent nullable-or-defaulted columns, which is why each implementation
\* tests for a missing end date.
Rows ==
    {[username |-> Some("alice"), status |-> st, start |-> NULL, end |-> e,
      created |-> 0, payment_amount |-> NULL, payment_reference |-> NULL,
      queries_used |-> 0] :
        st \in Statuses, e \in {NULL} \cup {Some(t) : t \in 0..MaxTime}}

RowsInit ==
    /\ variant \in Variants
    /\ now = 0
    /\ users \in {[x \in {} |-> NULL]} \cup {[x \in {id} |-> row] : id \in UserIds, row \in Rows}
    /\ payments = <<>>
    /\ usage_logs = <<>>
    /\ last = NoLast
    /\ activated = {id \in DOMAIN users : users[id].status # "inactive" \/ users[id].end # NULL}
    /\ expiredSince = {}
    /\ inflight = [p \in Procs |-> Idle]
    /\ is_healthy = TRUE
    /\ conflict = FALSE

RowsNext ==
    \/ \E id \in UserIds : IsUserSubscribed(id, "none")
    \/ Tick

RowsSpec == RowsInit /\ [][RowsNext]_vars

\* The two list operations over a table of two users, added at the same time
\* or one after the other.
ListIds == {1001, 1002}
ListRows == {[r EXCEPT !.created = c] : r \in Rows, c \in {0, 1}}

ListInit ==
    /\ variant \in Variants
    /\ now = 1
    /\ users \in [ListIds -> ListRows]
    /\ payments = <<>>
    /\ usage_logs = <<>>
    /\ last = NoLast
    /\ activated = {id \in DOMAIN users : users[id].status # "inactive" \/ users[id].end # NULL}
    /\ expiredSince = {}
    /\ inflight = [p \in Procs |-> Idle]
    /\ is_healthy = TRUE
    /\ conflict = FALSE

ListNext ==
    \/ \E rows \in Perms(ListIds) \cup Perms({1001}) \cup Perms({1002}) \cup {<<>>} :
          \/ ListAllUsers(rows)
          \/ ListActiveUsers(rows)
    \/ Tick

ListSpec == ListInit /\ [][ListNext]_vars

\* ================================================================== claims
\* The stats dict of id has key k.
HasKey(id, k) == k \in DOMAIN get_user_stats(Store, id)

\* C1: for every user id u and every days value d, right after
\* grant_subscription(u, days=d) has returned (less than a day ago),
\* isSubscribed(u) is true and get_user_stats(u).days_remaining is d-1 or d.
C1_GrantThenSubscribed ==
    (last.op = "grant_subscription" /\ last.ret) =>
        /\ isSubscribed(Store, last.user)
        /\ HasKey(last.user, "days_remaining")
        /\ get_user_stats(Store, last.user).days_remaining \in {last.days - 1, last.days}

\* C1, the case the code does satisfy: the target has a row and d >= 1.
C1_Witness ==
    /\ last.op = "grant_subscription" /\ last.ret /\ last.hadRow /\ last.days >= 1
    /\ isSubscribed(Store, last.user)

\* C2: after expire_subscription(u), whatever u's state was before,
\* isSubscribed(u) is false, and stays false until a later grant or
\* activation of u.
C2_ExpiredStaysUnsubscribed ==
    \A id \in expiredSince : ~isSubscribed(Store, id)

\* C2: a user expired in the middle of a window still open, then asked about.
C2_Witness ==
    \E id \in expiredSince :
        /\ id \in DOMAIN users
        /\ users[id].end # NULL
        /\ now < Val(users[id].end)
        /\ last.op = "is_user_subscribed" /\ last.user = id /\ ~last.ret

\* The subscription columns of a row.
Subscription(row) == <<row.status, row.start, row.end>>

\* C3: add_user for an id that already has a row leaves one row for the id
\* and leaves its status, start and end unchanged.
C3_AddUserKeepsSubscription ==
    [][(last'.op = "add_user" /\ last'.ret /\ last'.hadRow /\ last'.user \in DOMAIN users)
          => /\ last'.user \in DOMAIN users'
             /\ Subscription(users'[last'.user]) = Subscription(users[last'.user])]_vars

\* C3: add_user has run on an id whose row was active.
C3_Witness ==
    /\ last.op = "add_user" /\ last.ret /\ last.hadRow
    /\ last.user \in activated

\* C4: get_all_active_users never returns a user whose end date is at or
\* before the current time.
C4_ActiveListNoExpired ==
    \A id \in get_all_active_users(Store) :
        users[id].end = NULL \/ now < Val(users[id].end)

\* C4: a row whose status reads active after its end date has passed.
C4_Witness ==
    \E id \in DOMAIN users :
        /\ users[id].status = "active"
        /\ users[id].end # NULL
        /\ Val(users[id].end) <= now

\* C5: an admin action by a caller not on the allow-list is rejected with an
\* access-denied reply and makes no store call.
C5_NonAdminRejected ==
    (last.caller \in Callers \ admin_user_ids) =>
        /\ last.reply \in {"denied", "invalid_api_key"}
        /\ last.calls = 0

\* C5: a chat command or a button of a non-admin, turned away.
C5_Witness ==
    /\ last.caller \in Callers \ admin_user_ids
    /\ last.op \in {"grant_command", "callback_grant"}
    /\ last.reply = "denied"

\* C6: a revoke of an id that has no row, by any path, answers not-found and
\* writes nothing to the store.
C6_RevokeUnknownNotFound ==
    (/\ last.op \in {"revoke_command", "callback_revoke"}
     /\ is_admin(last.caller)
     /\ last.user \in UserIds
     /\ ~last.hadRow)
        => (last.reply = "not_found" /\ last.writes = 0)

\* C6: the /revoke command on an id without a row.
C6_Witness ==
    /\ last.op = "revoke_command" /\ is_admin(last.caller)
    /\ last.user \in UserIds /\ ~last.hadRow
    /\ last.reply = "not_found"

C8_HalfOpenWindow ==
    \A id \in DOMAIN users :
        (users[id].status = "active" /\ users[id].end # NULL) =>
            /\ (Val(users[id].end) = now - 1 => ~isSubscribed(Store, id))
            /\ (Val(users[id].end) = now => ~isSubscribed(Store, id))
            /\ (Val(users[id].end) = now + TicksPerDay => isSubscribed(Store, id))

\* C8: an active user at the very end of a window that had a positive length.
C8_Witness ==
    \E id \in DOMAIN users :
        /\ users[id].status = "active"
        /\ users[id].end # NULL /\ users[id].start # NULL
        /\ Val(users[id].start) < Val(users[id].end)
        /\ Val(users[id].end) = now

\* C9: after add_user(id) and then grant_subscription(id, 21, a, r), the
\* stats of id report status active, days_remaining 21 or 20 and
\* payment_amount a, and id has exactly one grant record, carrying r.
C9_GrantScenario ==
    (/\ last.op = "grant_subscription" /\ last.ret
     /\ last.hadRow /\ last.nPay = 0
     /\ last.days = subscription_days /\ last.ref # NULL)
        => /\ HasKey(last.user, "subscription_status")
           /\ get_user_stats(Store, last.user).subscription_status = "active"
           /\ HasKey(last.user, "days_remaining")
           /\ get_user_stats(Store, last.user).days_remaining
                 \in {subscription_days - 1, subscription_days}
           /\ HasKey(last.user, "payment_amount")
           /\ get_user_stats(Store, last.user).payment_amount = Some(last.amount)
           /\ Cardinality(RecordsOf(payments, last.user)) = 1
           /\ \A i \in RecordsOf(payments, last.user) :
                 payments[i].transaction_id = last.ref

\* C9: the scenario has run and the grant record is there.
C9_Witness ==
    /\ last.op = "grant_subscription" /\ last.ret
    /\ last.hadRow /\ last.nPay = 0
    /\ last.days = subscription_days /\ last.ref # NULL
    /\ Cardinality(RecordsOf(payments, last.user)) = 1

\* C10 as stated: a user never granted or activated, added or not, has
\* isSubscribed false and days_remaining 0 in its stats.
C10_NoHistoryZeroDays ==
    \A id \in UserIds \ activated :
        /\ ~isSubscribed(Store, id)
        /\ HasKey(id, "days_remaining")
        /\ get_user_stats(Store, id).days_remaining = 0

\* C10: a user never granted or activated has isSubscribed false; if it has a
\* row its stats report days_remaining 0, and if it was never added its stats
\* are the empty dict.
C10_NoHistoryNotSubscribed ==
    \A id \in UserIds \ activated :
        /\ ~isSubscribed(Store, id)
        /\ id \in DOMAIN users =>
              (HasKey(id, "days_remaining") /\ get_user_stats(Store, id).days_remaining = 0)
        /\ id \notin DOMAIN users => DOMAIN get_user_stats(Store, id) = {}

\* C10: a user added, never granted, then expired and asked about.
C10_Witness ==
    \E id \in UserIds \ activated :
        /\ id \in DOMAIN users
        /\ id \in expiredSince
        /\ last.op = "is_user_subscribed" /\ ~last.ret

\* C11: when, during grant_subscription(u), the subscription UPDATE succeeds
\* and the grant-record INSERT then fails, the update stays in effect: u is
\* active with the new window.
C11_UpdateSurvivesRecordFailure ==
    (last.op = "grant_subscription" /\ last.fail = "stmt2" /\ last.hadRow) =>
        /\ users[last.user].status = "active"
        /\ users[last.user].start = Some(last.at)
        /\ users[last.user].end = Some(last.at + timedelta(last.days))

\* C11: the cloud path, where the UPDATE has already been sent.
C11_Witness ==
    /\ last.op = "grant_subscription" /\ last.fail = "stmt2" /\ last.hadRow
    /\ ~last.ret
    /\ users[last.user].status = "active"
    /\ users[last.user].end = Some(last.at + timedelta(last.days))

\* C12: for an existing user, a log_usage that returns ok has appended
\* exactly one usage log entry and added exactly one to the user's usage
\* counter; a log_usage that fails changes neither.
C12_LogUsageCounts ==
    [][(last'.op = "log_usage" /\ last'.hadRow) =>
          IF last'.ret
          THEN /\ Len(usage_logs') = Len(usage_logs) + 1
               /\ users'[last'.user].queries_used = users[last'.user].queries_used + 1
          ELSE /\ usage_logs' = usage_logs
               /\ users' = users]_vars

\* C12: a usage entry written for an existing user.
C12_Witness ==
    /\ last.op = "log_usage" /\ last.ret /\ last.hadRow
    /\ Len(usage_logs) = 1
    /\ usage_logs[1].user_id = last.user

\* C13: a store operation whose backend call fails returns its benign
\* failure value (False, None, [] or {}) and does not raise.
C13_FailureIsBenign ==
    (last.caller = "store" /\ last.fail # "none") =>
        (~last.raised /\ last.benign)

\* C13: get_user_stats of an existing user while the backend is failing.
C13_Witness ==
    /\ last.op = "get_user_stats" /\ last.fail # "none"
    /\ last.hadRow /\ last.benign

\* A grant action by someone entitled to it: an admin on the chat surfaces,
\* the holder of the API key on the REST route.
AuthorisedGrant ==
    /\ last.op \in {"grant_command", "hybrid_grant_command", "rest_grant"}
    /\ IF last.op = "rest_grant" THEN require_api_key(last.key) ELSE is_admin(last.caller)
    /\ last.user \in UserIds

\* C14: an authorised grant for an id that has no row creates the row and
\* then grants, on every grant surface: the user ends up existing and active,
\* and the reply is not a not-found rejection.
C14_GrantCreatesPlaceholder ==
    (AuthorisedGrant /\ ~last.hadRow) =>
        /\ last.reply # "not_found"
        /\ last.user \in DOMAIN users
        /\ users[last.user].status = "active"

\* C14: the /grant command of main.py on an unknown id.
C14_Witness ==
    /\ AuthorisedGrant /\ ~last.hadRow
    /\ last.op = "grant_command" /\ last.reply = "granted"
    /\ last.user \in DOMAIN users
    /\ users[last.user].status = "active"

\* C15: a request to a non-public REST route (stats, grant) whose key is not
\* the configured secret is answered with an error and makes no store call.
C15_WrongKeyRejected ==
    (last.op \in {"rest_stats", "rest_grant"} /\ last.key # "ADMIN_API_KEY") =>
        /\ last.reply = "invalid_api_key"
        /\ last.calls = 0
        /\ last.writes = 0

\* C15: a stats request and a grant request turned away for their key.
C15_Witness ==
    /\ last.op \in {"rest_stats", "rest_grant"}
    /\ last.key = "wrong"
    /\ last.reply = "invalid_api_key"

\* C16: update_subscription(id, status, days) on an existing row: with status
\* active it sets start to now and end to now + days; with any other status it
\* changes the status and leaves start and end as they were.
C16_UpdateSubscriptionDates ==
    [][(last'.op = "update_subscription" /\ last'.ret /\ last'.hadRow
           /\ last'.user \in DOMAIN users)
          => /\ last'.user \in DOMAIN users'
             /\ users'[last'.user].status = last'.status
             /\ IF last'.status = "active"
                THEN /\ users'[last'.user].start = Some(last'.at)
                     /\ users'[last'.user].end = Some(last'.at + timedelta(last'.days))
                ELSE /\ users'[last'.user].start = users[last'.user].start
                     /\ users'[last'.user].end = users[last'.user].end]_vars

\* C16: a window kept through an update to a status other than active.
C16_Witness ==
    /\ last.op = "update_subscription" /\ last.ret /\ last.hadRow
    /\ last.status = "expired"
    /\ users[last.user].end # NULL

\* C17: a user whose status is active has an end date, and the end date was
\* strictly later than the moment it was written, whatever days value the
\* callers passed.
C17_ActiveHasFutureEnd ==
    \A id \in DOMAIN users :
        users[id].status = "active" =>
            /\ users[id].start # NULL
            /\ users[id].end # NULL
            /\ Val(users[id].start) < Val(users[id].end)

\* C17: an active user whose window was written with a positive length.
C17_Witness ==
    \E id \in DOMAIN users :
        /\ users[id].status = "active"
        /\ users[id].end # NULL /\ users[id].start # NULL
        /\ Val(users[id].start) < Val(users[id].end)
        /\ last.op = "hybrid_grant_command" /\ last.reply = "granted"

\* C18: a subscription check is read-only: it never changes the stored
\* status of a user, not even of one whose window has closed.
C18_CheckIsReadOnly ==
    [][(last'.op = "is_user_subscribed") =>
          /\ DOMAIN users' = DOMAIN users
          /\ \A id \in DOMAIN users : users'[id].status = users[id].status]_vars

\* C18: a check on a user whose window has closed with the status still active.
C18_Witness ==
    /\ last.op = "is_user_subscribed" /\ ~last.ret
    /\ last.user \in DOMAIN users
    /\ users[last.user].status = "active"
    /\ users[last.user].end # NULL
    /\ Val(users[last.user].end) < now

\* C19: the store built with cloud credentials and the store built without
\* them behave alike: on the same store contents the same add_user call
\* leaves the same users and grant records on both paths.
C19_BackendsAgree ==
    variant # "legacy" =>
        \A id \in UserIds, name \in Names :
            add_user_supabase(Store, id, name) = add_user_sqlite(Store, id, name)

\* C19: store contents with a subscription on which add_user can be called.
C19_Witness ==
    /\ variant # "legacy"
    /\ \E id \in DOMAIN users : users[id].status = "active"

\* The replies that tell the admin the action failed.
FailureReplies ==
    {"grant_failed", "revoke_failed", "error", "handler_error"}

C21_HealthFollowsStatusFunc ==
    (last.op = "GET /health") =>
        /\ last.reported \in {"healthy", "unhealthy", "raised"}
        /\ last.reported = "healthy" <=>
              (last.reply = "200"
                 /\ last.body = {"status", "timestamp", "uptime_seconds"})
        /\ last.reported \in {"unhealthy", "raised"} <=> last.reply = "503"
        /\ last.calls = 0

\* C21: the bot's own status function reporting unhealthy, answered 503.
C21_Witness ==
    /\ last.op = "GET /health" /\ last.func = "get_health_status"
    /\ last.reported = "unhealthy" /\ last.reply = "503"

\* C30: once the error handler has seen a Conflict error the health flag is
\* false and stays false: every later GET /health of the bot's health server
\* answers 503, and no handled action sets the flag back.
C30_ConflictStaysUnhealthy ==
    conflict =>
        /\ ~is_healthy
        /\ (last.op = "GET /health" /\ last.func = "get_health_status")
              => last.reply = "503"

\* C30: after a Conflict, a command handled successfully and the flag still
\* false.
C30_Witness ==
    /\ conflict /\ ~is_healthy
    /\ last.op = "revoke_command" /\ last.reply = "revoked"

\* The ids of a list, and the list being in created_at order, newest first.
Range(rows) == {rows[i] : i \in 1..Len(rows)}
NewestFirst(rows) ==
    \A i \in 1..(Len(rows) - 1) : users[rows[i]].created >= users[rows[i + 1]].created

\* C22: get_all_users returns every user row, get_all_active_users returns
\* exactly the rows with status active and an end date absent or after the
\* time of the call, each row once, and both in created_at order, newest
\* first.
C22_ListsFilteredAndOrdered ==
    /\ last.op = "list_all_users" =>
          /\ Range(last.rows) = DOMAIN users
          /\ Len(last.rows) = Cardinality(DOMAIN users)
          /\ NewestFirst(last.rows)
    /\ last.op = "list_active_users" =>
          /\ Range(last.rows) =
                {id \in DOMAIN users :
                    /\ users[id].status = "active"
                    /\ (users[id].end = NULL \/ last.at < Val(users[id].end))}
          /\ Len(last.rows) = Cardinality(Range(last.rows))
          /\ NewestFirst(last.rows)

\* C22: database.py listing two active users added at different times, the
\* one whose window ends first being the newer.
C22_Witness ==
    /\ variant # "legacy"
    /\ last.op = "list_active_users" /\ Len(last.rows) = 2
    /\ users[last.rows[1]].created > users[last.rows[2]].created
    /\ EndKey(users[last.rows[1]]) < EndKey(users[last.rows[2]])

\* The step is a store call that returned ok and set the status of id to
\* active: a grant, or an update to status active, whose UPDATE matched a row.
SetActive(id) ==
    /\ now' = now
    /\ last'.user = id /\ last'.ret
    /\ \/ last'.op = "grant_subscription"
       \/ last'.op = "update_subscription" /\ last'.status = "active"
    /\ id \in DOMAIN users

\* C23: with every write succeeding, the grant records of a user grow by
\* exactly one in every step that sets the user's status to active and in no
\* other step, so their number equals the number of activations.
C23_ActivationHasOneRecord ==
    [][\A id \in UserIds :
          Cardinality(RecordsOf(payments', id)) - Cardinality(RecordsOf(payments, id))
              = IF SetActive(id) THEN 1 ELSE 0]_vars

\* C23: a grant on an existing user, with its one record.
C23_Witness ==
    /\ last.op = "grant_subscription" /\ last.ret /\ last.hadRow
    /\ users[last.user].status = "active"
    /\ Cardinality(RecordsOf(payments, last.user)) = last.nPay + 1

\* C27: every grant record references a user id that has a user row.
C27_RecordsHaveUserRow ==
    \A i \in 1..Len(payments) : payments[i].user_id \in DOMAIN users

\* C27: a grant record written for a user that has a row.
C27_Witness ==
    /\ last.op = "grant_subscription" /\ last.ret /\ last.hadRow
    /\ \E i \in 1..Len(payments) : payments[i].user_id = last.user

\* C28: when a grant action reports success, the target has a user row and
\* isSubscribed(target) is true at that moment, also when the placeholder
\* add_user before it failed.
C28_ReportedGrantIsSubscribed ==
    (AuthorisedGrant /\ last.reply = "granted") =>
        /\ last.user \in DOMAIN users
        /\ isSubscribed(Store, last.user)

\* C28: a grant reported as a success for a user who is then subscribed.
C28_Witness ==
    /\ AuthorisedGrant /\ last.reply = "granted" /\ last.op = "rest_grant"
    /\ ~last.hadRow
    /\ last.user \in DOMAIN users
    /\ isSubscribed(Store, last.user)

\* C24: every API-client call makes exactly one HTTP request attempt; when
\* the attempt times out or the connection fails the call returns an error
\* result without raising, no second attempt is made, and the handler that
\* made the call reports the failure to the admin.
C24_OneAttemptFailureReported ==
    (last.op \in {"client_" \o cmd : cmd \in ClientCommands}) =>
        /\ last.attempts = last.api_calls
        /\ ~last.raised
        /\ last.net \in {"timeout", "connection_failed"} => last.reply = "error"

\* C24: the grant call of an admin timing out and being reported.
C24_Witness ==
    /\ last.op = "client_grant" /\ last.net = "timeout"
    /\ last.api_calls = 2 /\ last.attempts = 2
    /\ last.reply = "error"

\* C25: when n concurrent log_usage calls for one existing user have all
\* returned ok, whatever their interleaving, the user's usage counter is n
\* higher than at the start and n usage log entries were appended.
C25_NoIncrementLost ==
    (\A p \in Procs : /\ inflight[p].op = "log_usage"
                       /\ inflight[p].pc = "returned"
                       /\ inflight[p].ret) =>
        \A id \in UserIds :
            /\ users[id].queries_used = Cardinality(Procs)
            /\ Len(usage_logs) = Cardinality(Procs)

\* C25: database_sqlite.py after every caller's log_usage has returned ok.
C25_Witness ==
    /\ variant = "legacy"
    /\ \A p \in Procs : inflight[p].op = "log_usage" /\ inflight[p].pc = "returned"
                          /\ inflight[p].ret
    /\ \A id \in UserIds : users[id].queries_used = Cardinality(Procs)
    /\ Len(usage_logs) = Cardinality(Procs)

\* The last write asked of id is a grant of one day or more, and its window
\* has not closed on database_sqlite.py's reading (now is not after the end).
FreshGrant(id) ==
    /\ id \in DOMAIN users
    /\ id \in activated /\ id \notin expiredSince
    /\ users[id].start # NULL /\ users[id].end # NULL
    /\ Val(users[id].start) < Val(users[id].end)
    /\ now <= Val(users[id].end)

\* C26: on the store whose is_user_subscribed expires a stale subscription,
\* under every interleaving of a check with a grant of one day or more: once
\* the grant has returned ok and no expiry of the user is requested after it,
\* the user's stored status is active and isSubscribed is true until the new
\* window closes.
C26_GrantNotClobbered ==
    variant = "legacy" =>
        \A id \in UserIds :
            FreshGrant(id) => (users[id].status = "active" /\ isSubscribed(Store, id))

\* C26: a check that began before a grant and returned after it, the grant
\* still in force.
C26_Witness ==
    /\ variant = "legacy"
    /\ last.op = "is_user_subscribed" /\ ~last.ret
    /\ FreshGrant(last.user) /\ users[last.user].status = "active"

\* C29: under every interleaving of a stats action with add_user, grant and
\* expire calls made from the other surface, the active-subscription count
\* the stats action reports is at most the total user count it reports.
C29_ActiveAtMostTotal ==
    \A p \in Procs :
        (inflight[p].op \in {"stats_rest", "stats_chat"} /\ inflight[p].pc = "returned") =>
            Val(inflight[p].seen).active_subscriptions <= Val(inflight[p].seen).total_users

\* C29: a stats action during which a user was added and granted: it counted
\* no active user and reports one user.
C29_Witness ==
    \E p \in Procs :
        /\ inflight[p].op = "stats_rest" /\ inflight[p].pc = "returned"
        /\ Val(inflight[p].seen).active_subscriptions = 0
        /\ Val(inflight[p].seen).total_users = 1
        /\ get_all_active_users(Store) # {}
        /\ last.op = "stats_rest"

====
